---- MODULE Spec2Model ----
(***************************************************************************)
(* A model of math_bot's Telegram front end (src/math_bot/tg.py): the      *)
(* per-chat next-step registry driven through the bot object, the command  *)
(* and callback handlers, and the bug-report review workflow.              *)
(*                                                                         *)
(* One update (a message or a callback query) is processed per step, in    *)
(* arrival order.  The handlers are state transformers on a record         *)
(*   [steps, reports, users, confirms, out]                                *)
(* so that the several continuations pending for one chat can be run one   *)
(* after the other on the same message, as the bot object does.            *)
(*                                                                         *)
(* The bot object is pyTelegramBotAPI's TeleBot.  Its registry keeps a     *)
(* list of handlers per chat id: register_next_step_handler appends to     *)
(* the list, and a message for the chat takes the whole list out of the    *)
(* registry and calls every handler of it with the message.                *)
(*                                                                         *)
(* The store (models.py: User, ReportRecord, get_db, close_db) is not part  *)
(* of tg.py; its operations are modelled from the specification's          *)
(* description of them.                                                    *)
(*                                                                         *)
(* A handler raises when the bot cannot send to a chat (the blocked chats  *)
(* of an update): what it did before stays done, what follows the raising  *)
(* call is not reached.  bot.infinity_polling keeps fetching updates after *)
(* a handler has raised.                                                   *)
(*                                                                         *)
(* A chat is either the private chat of a user (chat id = user id) or a    *)
(* group chat, where message.chat.id and message.from_user.id differ and   *)
(* every member sees, and may press, the buttons the bot has sent.         *)
(***************************************************************************)
EXTENDS Integers, Sequences, FiniteSets, TLC

\* ------------------------------------------------------------------ bounds
MaxReports == 2     \* reports the store may hold
MaxPending == 2     \* continuations pending for one chat
MaxConfirm == 1     \* link confirmation messages outstanding
MaxUpdates == 3     \* updates that arrive while the loop is observed
MaxInbox == 2       \* updates waiting to be fetched

\* ---------------------------------------------------------------- universe
Admins == {"a"}                 \* Config.ADMINS
Users == {"a", "u"}             \* "u" is not an administrator
Chats == {"u", "g"}             \* "u": private chat of u; "g": a group chat
Members(c) == IF c = "g" THEN Users ELSE {c}

NULL == "<None>"                \* Python's None

\* str.split(): the whitespace-separated tokens of a text of one line.
Split(t) ==
    CASE t = "see http://x/1" -> <<"see", "http://x/1">>
      [] t = "/idempotents 5" -> <<"/idempotents", "5">>
      [] t = "3 4" -> <<"3", "4">>
      [] t = "1 2" -> <<"1", "2">>
      [] OTHER -> <<t>>

\* str.split("\n"): the lines of a text.
Lines(t) ==
    CASE t = "1 2\n3" -> <<"1 2", "3">>
      [] t = "1 2\n3 4" -> <<"1 2", "3 4">>
      [] OTHER -> <<t>>

\* text[1:]: a text without its first character.
Rest(t) ==
    CASE t = "/idempotents" -> "idempotents"
      [] t = "/nilpotents" -> "nilpotents"
      [] t = "/idempotents 5" -> "idempotents 5"
      [] OTHER -> t

VARIABLES steps, reports, users, confirms, out, ev, db, polling, inbox, arrived

vars == <<steps, reports, users, confirms, out, ev, db, polling, inbox, arrived>>

\* The state the handlers act on, as one record; out collects what this
\* update sends, blocked are the chats the bot cannot send to while the
\* update is processed, raised tells that the running handler has raised
\* and failed that some handler of the update has.
Cur == [steps |-> steps, reports |-> reports, users |-> users,
        confirms |-> confirms, out |-> <<>>, db |-> db, blocked |-> {},
        raised |-> FALSE, failed |-> FALSE]

\* The state a handler starts from for the update e.
Given(s, e) == [s EXCEPT !.blocked = e.blocked]

\* The effect t of a statement, which is not reached once the handler has
\* raised.
Unless(s, t) == IF s.raised THEN s ELSE t

\* ------------------------------------------------------- the store (models.py)
\* ReportRecord.new(user, text): a NEW report owned by user, without a link.
new(user, text) == [user_id |-> user, status |-> "NEW", link |-> NULL]

\* The store's key of a report id, given as it stands in a text ("1").
IdNum(id) == IF id = "1" THEN 1 ELSE IF id = "2" THEN 2
             ELSE IF id = "3" THEN 3 ELSE 0

\* str(id) as it appears in a message text or in callback data.
Str(n) == IF n = 1 THEN "1" ELSE IF n = 2 THEN "2" ELSE IF n = 3 THEN "3"
          ELSE "0"

\* ReportRecord.get_report_by_id(db, id)
get_report_by_id(rs, id) == rs[IdNum(id)]

\* ReportRecord.get_reports(db, status_token): the ids of the reports of the
\* bucket "report_status_<STATUS>", in the store's order.
StatusOfToken(token) ==
    CASE token = "report_status_NEW" -> "NEW"
      [] token = "report_status_ACCEPTED" -> "ACCEPTED"
      [] token = "report_status_REJECTED" -> "REJECTED"
      [] token = "report_status_CLOSED" -> "CLOSED"

get_reports(rs, token) ==
    SelectSeq([i \in 1..Len(rs) |-> i], LAMBDA i : rs[i].status = StatusOfToken(token))

\* change_status without its check of the current status.
change_status_unguarded(rs, id, action, link) ==
    LET k == IdNum(id) IN
    IF action = "accept_report"
    THEN [rs EXCEPT ![k].status = "ACCEPTED", ![k].link = link]
    ELSE IF action = "reject_report"
    THEN [rs EXCEPT ![k].status = "REJECTED"]
    ELSE [rs EXCEPT ![k].status = "CLOSED"]

\* ReportRecord.change_status(db, id, action_token, link=None): the legal
\* transitions NEW -> ACCEPTED (with the link), NEW -> REJECTED and
\* ACCEPTED -> CLOSED; any other attempt is a no-op.
change_status(rs, id, action, link) ==
    LET k == IdNum(id) IN
    IF action = "accept_report" /\ rs[k].status = "NEW"
    THEN [rs EXCEPT ![k].status = "ACCEPTED", ![k].link = link]
    ELSE IF action = "reject_report" /\ rs[k].status = "NEW"
    THEN [rs EXCEPT ![k].status = "REJECTED"]
    ELSE IF action = "close_report" /\ rs[k].status = "ACCEPTED"
    THEN [rs EXCEPT ![k].status = "CLOSED"]
    ELSE rs

\* User.get_or_create(db, id, ...): idempotent.
get_or_create(us, id) == us \cup {id}

\* get_db(): the store is acquired.
get_db(s) == Unless(s, [s EXCEPT !.db = TRUE])

\* close_db(): the store is released.
close_db(s) == Unless(s, [s EXCEPT !.db = FALSE])

\* ------------------------------------------------ the bot object (telebot)
\* bot.send_message / bot.reply_to: one more message sent during this
\* update, or ApiTelegramException when the bot cannot send to the chat.
send_message(s, to, msg, about, menu) ==
    IF s.raised THEN s
    ELSE IF to \in s.blocked
    THEN [s EXCEPT !.raised = TRUE, !.failed = TRUE]
    ELSE [s EXCEPT !.out = Append(@, [to |-> to, msg |-> msg, about |-> about,
                                      menu |-> menu])]

\* A continuation: the function and its bound arguments.
Handler(fn, arg, modulo) == [fn |-> fn, arg |-> arg, modulo |-> modulo]

\* bot.register_next_step_handler(message, callback, *args): the handler is
\* appended to the list kept for message.chat.id.
register_next_step_handler(s, chat, h) ==
    Unless(s, [s EXCEPT !.steps[chat] = Append(@, h)])

\* clear_step_handler_by_chat_id emptying the lists of all chats.
clear_step_handler_all(s, chat) ==
    Unless(s, [s EXCEPT !.steps = [c \in Chats |-> <<>>]])

\* bot.clear_step_handler_by_chat_id(chat_id)
clear_step_handler_by_chat_id(s, chat) ==
    Unless(s, [s EXCEPT !.steps[chat] = <<>>])

\* ----------------------------------------------------------------- menus
get_report_menu(user_id) ==
    IF user_id \in Admins THEN "report+view_reports" ELSE "report"

get_cancel_menu == "cancel"

\* get_admin_menu offering accept for every bucket an administrator lists.
get_admin_menu_accept(data, from) ==
    IF from \in Admins THEN "accept,reject,close" ELSE "None"

\* The buttons of the admin menu, or "None" when the function returns nothing.
get_admin_menu(data, from) ==
    IF data \notin {"report_status_CLOSED", "report_status_REJECTED"} /\ from \in Admins
    THEN IF data \notin {"report_status_ACCEPTED"}
         THEN "accept,reject,close"
         ELSE "reject,close"
    ELSE "None"

\* ------------------------------------------------------- command handlers
start_message(s, m) ==
    LET s1 == get_db(send_message(s, m.chat, "Hello", "", "menu"))
    IN  close_db(Unless(s1, [s1 EXCEPT !.users = get_or_create(@, m.from)]))

send_help(s, m) ==
    send_message(s, m.chat, "help", "", get_report_menu(m.from))

det(s, m) ==
    register_next_step_handler(
        send_message(s, m.chat, "Enter the matrix: (in one message)", "", "hide_menu"),
        m.chat, Handler("matrix_input", "det", 0))

\* int(message.text.strip()) raises ValueError unless the text is an integer.
IsInt(t) == t \in {"-1", "0", "1", "2", "3", "4", "5", "6"}

\* int(message.text.strip()) of an integer text.
ParseInt(t) ==
    CASE t = "-1" -> 0 - 1
      [] t = "0" -> 0
      [] t = "2" -> 2
      [] t = "3" -> 3
      [] t = "4" -> 4
      [] t = "5" -> 5
      [] t = "6" -> 6
      [] OTHER -> 1

\* float(x) succeeds for the token x.
IsNumeric(x) == IsInt(x)

\* [[float(x) for x in row.split()] for row in message.text.split("\n")],
\* the entries kept as tokens.
Rows(t) == [i \in 1..Len(Lines(t)) |-> Split(Lines(t)[i])]

\* Config.MAX_MATRIX (config.py): the largest matrix accepted.
MAX_MATRIX == 1

\* Matrix.from_list(lst) (matrix.py) raises SizesMatchError for rows of
\* different lengths.
SizesMatchError(lst) == \E i \in 1..Len(lst) : Len(lst[i]) # Len(lst[1])

\* matrix.det() (matrix.py) raises SquareMatrixRequired for a matrix that is
\* not square.
SquareMatrixRequired(lst) == Len(lst) # Len(lst[1])

calc_det(s, m, lst) ==
    IF SquareMatrixRequired(lst)
    THEN send_message(s, m.chat,
             "Determinant cannot be calculated for a non-square matrix!", "", "menu")
    ELSE send_message(s, m.chat, "determinant", m.text, "menu")

\* float() raises ValueError at the first entry that is no number, before
\* Matrix.from_list is called; matrix.n is the number of rows.
matrix_input(s, m, action) ==
    LET lst == Rows(m.text) IN
    IF \E i \in 1..Len(lst) : \E j \in 1..Len(lst[i]) : ~IsNumeric(lst[i][j])
    THEN send_message(s, m.chat, "Please enter a <b>numeric</b> square matrix.", "", "menu")
    ELSE IF SizesMatchError(lst)
    THEN send_message(s, m.chat,
             "Mismatch in row or column sizes. The matrix must be <b>rectangular</b>.",
             "", "menu")
    ELSE IF Len(lst) > MAX_MATRIX
    THEN send_message(s, m.chat, "The matrix input has a limitation", "", "menu")
    ELSE calc_det(s, m, lst)

\* Config.MAX_MODULO (config.py): the moduli accepted are 2 <= n < MAX_MODULO.
MAX_MODULO == 6

\* Config.FACTORIZE_MAX (config.py): the numbers factorized are
\* 2 <= n <= FACTORIZE_MAX.
FACTORIZE_MAX == 6

\* command = message.text[1:]
ring_input(s, m) ==
    register_next_step_handler(
        send_message(s, m.chat, "Enter the ring modulus:", "", ""),
        m.chat, Handler("ring_output", Rest(m.text), 0))

ring_output(s, m, command) ==
    LET n == ParseInt(m.text) IN
    IF ~IsInt(m.text)
    THEN send_message(s, m.chat, "Input data error", "", "menu")
    ELSE IF n >= MAX_MODULO \/ n < 2
    THEN send_message(s, m.chat, "Limitation: 2 <= n < MAX_MODULO", "", "menu")
    ELSE IF command = "idempotents"
    THEN send_message(s, m.chat, "Idempotents", m.text, "menu")
    ELSE IF command = "nilpotents"
    THEN send_message(s, m.chat, "Nilpotents", m.text, "menu")
    ELSE s

factorize_input(s, m) ==
    register_next_step_handler(
        send_message(s, m.chat, "Enter a number:", "", ""),
        m.chat, Handler("factorize_output", "", 0))

\* factorize_output asking again after a number out of range.
factorize_output_retry(s, m) ==
    LET n == ParseInt(m.text) IN
    IF ~IsInt(m.text)
    THEN send_message(s, m.chat, "Input data error", "", "menu")
    ELSE IF n < 2 \/ n > FACTORIZE_MAX
    THEN register_next_step_handler(
             send_message(s, m.chat,
                 "Factorization is available for positive integers n: 2 <= n <= FACTORIZE_MAX",
                 "", ""),
             m.chat, Handler("factorize_output", "", 0))
    ELSE send_message(s, m.chat, "factorization", m.text, "")

factorize_output(s, m) ==
    LET n == ParseInt(m.text) IN
    IF ~IsInt(m.text)
    THEN send_message(s, m.chat, "Input data error", "", "menu")
    ELSE IF n < 2 \/ n > FACTORIZE_MAX
    THEN send_message(s, m.chat,
             "Factorization is available for positive integers n: 2 <= n <= FACTORIZE_MAX",
             "", "")
    ELSE send_message(s, m.chat, "factorization", m.text, "")

euclid_input(s, m) ==
    register_next_step_handler(
        send_message(s, m.chat, "Enter two numbers separated by a space:", "", ""),
        m.chat, Handler("euclid_output", "", 0))

\* a, b = map(int, message.text.strip().split(" ")) raises ValueError unless
\* the text is two integers.
euclid_output(s, m) ==
    LET ab == Split(m.text) IN
    IF Len(ab) # 2 \/ \E i \in 1..Len(ab) : ~IsInt(ab[i])
    THEN send_message(s, m.chat, "Input data error", "", "menu")
    ELSE send_message(s, m.chat, "GCD", m.text, "")

inverse_input_ring(s, m) ==
    register_next_step_handler(
        send_message(s, m.chat, "Enter the ring modulus:", "", ""),
        m.chat, Handler("inverse_input_element", "", 0))

inverse_input_element(s, m) ==
    LET n == ParseInt(m.text) IN
    IF ~IsInt(m.text)
    THEN send_message(s, m.chat, "Input data error", "", "menu")
    ELSE IF n >= MAX_MODULO \/ n < 2
    THEN send_message(s, m.chat, "Limitation: 2 <= n < MAX_MODULO", "", "menu")
    ELSE register_next_step_handler(
             send_message(s, m.chat,
                 "Enter the element for which you want to find the inverse:", "", ""),
             m.chat, Handler("inverse_output", "", n))

RECURSIVE gcd(_, _)
gcd(a, b) == IF b = 0 THEN a ELSE gcd(b, a % b)

inverse_output(s, m, modulo) ==
    LET n == ParseInt(m.text) IN
    IF ~IsInt(m.text)
    THEN send_message(s, m.chat, "Input data error", "", "menu")
    ELSE IF gcd(n % modulo, modulo) > 1
    THEN send_message(s, m.chat, "There is no inverse in the ring", m.text, "")
    ELSE send_message(s, m.chat, "inverse", m.text, "")

broadcast_input(s, m) ==
    IF m.from \notin Admins
    THEN s
    ELSE register_next_step_handler(
             send_message(s, m.chat, "Message for mailing:", "", ""),
             m.chat, Handler("broadcast", "", 0))

\* The users of the store in the order the query returns them.
RECURSIVE SendAll(_, _, _)
SendAll(s, us, m) ==
    IF us = {} THEN s
    ELSE LET u == CHOOSE x \in us : TRUE IN
         SendAll(IF u \in m.blocked THEN s ELSE send_message(s, u, m.text, "", ""),
                 us \ {u}, m)

\* m.blocked: the chats for which send_message raises ApiTelegramException;
\* the loop over the users catches it, the last send_message is outside
\* the try.
broadcast(s, m) ==
    close_db(
        send_message(SendAll(get_db(s), s.users, m), m.chat,
                     "Mailing completed successfully!",
                     Str(Cardinality(s.users \cap m.blocked)), ""))

\* ------------------------------------------------------ the report workflow
callback_inline(s, call) ==
    register_next_step_handler(
        send_message(s, call.chat, "Please describe specifically what went wrong.",
                     "", get_cancel_menu),
        call.chat, Handler("report_handling", "", 0))

report_handling(s, m) ==
    LET s0 == get_db(s)
        s1 == [s0 EXCEPT !.users = get_or_create(@, m.from),
                         !.reports = Append(@, new(m.from, m.text))]
    IN  send_message(close_db(s1), m.chat,
                     "Thank you for reporting the issues to me!", "", "")

\* cancel_report leaving the registry as it is.
cancel_report_keep(s, call) == s

\* bot.delete_message removes the prompt; nothing is sent, nothing is stored.
cancel_report(s, call) ==
    clear_step_handler_by_chat_id(s, call.chat)

\* bot.edit_message_reply_markup: no message is sent, nothing is stored.
choose_report_types(s, call) == s

back_func(s, call) == s

RECURSIVE SendReports(_, _, _, _)
SendReports(s, ids, chat, mk) ==
    IF ids = <<>> THEN s
    ELSE SendReports(send_message(s, chat, "Report", Str(Head(ids)), mk),
                     Tail(ids), chat, mk)

\* list_reports taking the continuations pending for the chat out of the
\* registry.
list_reports_clears(s, call) ==
    SendReports(clear_step_handler_by_chat_id(close_db(get_db(s)), call.chat),
                get_reports(s.reports, call.data[1]), call.chat,
                get_admin_menu(call.data[1], call.from))

list_reports(s, call) ==
    SendReports(close_db(get_db(s)), get_reports(s.reports, call.data[1]), call.chat,
                get_admin_menu(call.data[1], call.from))

\* change_report_status committing the acceptance at once, before any link
\* is supplied.
change_report_status_eager(s, call) ==
    LET id == call.mtext[1][3] IN
    IF call.data[1] = "accept_report"
    THEN send_message(
             [s EXCEPT !.reports = change_status(@, id, call.data[1], NULL)],
             call.chat, "The issue has been confirmed.", "", "")
    ELSE IF call.data[1] = "close_report"
    THEN send_message(
             [s EXCEPT !.reports = change_status(@, id, call.data[1], NULL)],
             call.chat, "The issue has been closed.", "", "")
    ELSE send_message(
             [s EXCEPT !.reports = change_status(@, id, call.data[1], NULL)],
             call.chat, "The issue has been rejected.", "", "")

\* change_report_status closing without looking at the current status.
change_report_status_noguard(s, call) ==
    LET id == call.mtext[1][3] IN
    IF call.data[1] = "accept_report"
    THEN register_next_step_handler(
             send_message(s, call.chat,
                 "Provide a link to the GitHub issue, please.", "", ""),
             call.chat, Handler("link_handling", id, 0))
    ELSE IF call.data[1] = "close_report"
    THEN send_message(
             [s EXCEPT !.reports = change_status(@, id, call.data[1], NULL)],
             call.chat, "The issue has been closed.", "", "")
    ELSE send_message(
             [s EXCEPT !.reports = change_status(@, id, call.data[1], NULL)],
             call.chat, "The issue has been rejected.", "", "")

\* call.message.text.split()[2] of "Report id: <id>\nUser id: ..."
change_report_status(s, call) ==
    LET id == call.mtext[1][3]
        s0 == get_db(s)
        s1 == IF call.data[1] = "accept_report"
              THEN register_next_step_handler(
                       send_message(s0, call.chat,
                           "Provide a link to the GitHub issue, please.", "", ""),
                       call.chat, Handler("link_handling", id, 0))
              ELSE s0
        s2 == IF call.data[1] = "close_report"
              THEN IF get_report_by_id(s1.reports, id).status = "ACCEPTED"
                   THEN send_message(
                            [s1 EXCEPT !.reports = change_status(@, id, call.data[1], NULL)],
                            call.chat, "The issue has been closed.", "", "")
                   ELSE send_message(s1, call.chat,
                            "The issue has not been confirmed yet!", "", "")
              ELSE s1
    IN  close_db(IF call.data[1] = "reject_report"
                 THEN send_message(
                          [s2 EXCEPT !.reports = change_status(@, id, call.data[1], NULL)],
                          call.chat, "The issue has been rejected.", "", "")
                 ELSE s2)

\* The text of the confirmation message, as lines of tokens:
\* "Is the link provided correct?\nLink: <message.text>"
ConfirmText(t) == << <<"Is", "the", "link", "provided", "correct?">>,
                     <<"Link:">> \o Split(t) >>

link_handling(s, m, id) ==
    LET s1 == send_message(s, m.chat, "Is the link provided correct?", m.text,
                           "accept_link,reject_link")
    IN  Unless(s1, [s1 EXCEPT !.confirms =
                           @ \cup {[chat |-> m.chat, id |-> id, link |-> m.text]}])

\* accept_link calling change_status without the link.
accept_link_nolink(s, call) ==
    LET id == call.data[2] IN
    IF call.data[1] = "accept_link"
    THEN send_message(
             [s EXCEPT !.reports = change_status(@, id, "accept_report", NULL)],
             call.chat, "The issue has been confirmed.", "", "")
    ELSE register_next_step_handler(
             send_message(s, call.chat, "Please provide the link again.", "", ""),
             call.chat, Handler("link_handling", id, 0))

\* accept_link asking for the link again without registering link_handling.
accept_link_ask_only(s, call) ==
    LET id == call.data[2] IN
    IF call.data[1] = "accept_link"
    THEN send_message(
             [s EXCEPT !.reports =
                  change_status(@, id, "accept_report", call.mtext[2][2])],
             call.chat, "The issue has been confirmed.", "", "")
    ELSE send_message(s, call.chat, "Please provide the link again.", "", "")

\* id = int(call.data.split()[1]);
\* link = call.message.text.split('\n')[1].split()[1]
accept_link(s, call) ==
    LET id == call.data[2]
        s0 == get_db(s)
    IN  close_db(
            IF call.data[1] = "accept_link"
            THEN send_message(
                     [s0 EXCEPT !.reports =
                          change_status(@, id, "accept_report", call.mtext[2][2])],
                     call.chat, "The issue has been confirmed.", "", "")
            ELSE register_next_step_handler(
                     send_message(s0, call.chat, "Please provide the link again.", "", ""),
                     call.chat, Handler("link_handling", id, 0)))

\* ------------------------------------------------------------- dispatching
\* The continuation h called with the message m.
Invoke(s, h, m) ==
    CASE h.fn = "matrix_input" -> matrix_input(s, m, h.arg)
      [] h.fn = "inverse_input_element" -> inverse_input_element(s, m)
      [] h.fn = "inverse_output" -> inverse_output(s, m, h.modulo)
      [] h.fn = "ring_output" -> ring_output(s, m, h.arg)
      [] h.fn = "factorize_output" -> factorize_output(s, m)
      [] h.fn = "euclid_output" -> euclid_output(s, m)
      [] h.fn = "broadcast" -> broadcast(s, m)
      [] h.fn = "report_handling" -> report_handling(s, m)
      [] h.fn = "link_handling" -> link_handling(s, m, h.arg)

\* RunHandlers calling the handler registered last first.
RECURSIVE RunHandlers_last_first(_, _, _)
RunHandlers_last_first(s, hs, m) ==
    IF hs = <<>> THEN s
    ELSE RunHandlers_last_first(Invoke([s EXCEPT !.raised = FALSE], hs[Len(hs)], m),
                                SubSeq(hs, 1, Len(hs) - 1), m)

\* The handlers of the list are called in the order of their registration,
\* each as a task of its own: one that raises does not keep the next from
\* running.
RECURSIVE RunHandlers(_, _, _)
RunHandlers(s, hs, m) ==
    IF hs = <<>> THEN s
    ELSE RunHandlers(Invoke([s EXCEPT !.raised = FALSE], Head(hs), m), Tail(hs), m)

\* The command of a text: its first token, when that starts with "/".
Command(t) == Split(t)[1]

\* The message handlers, matched on the command.
notify_command_handlers(s, m) ==
    CASE Command(m.text) = "/start" -> start_message(s, m)
      [] Command(m.text) = "/help" -> send_help(s, m)
      [] Command(m.text) = "/det" -> det(s, m)
      [] Command(m.text) \in {"/idempotents", "/nilpotents"} -> ring_input(s, m)
      [] Command(m.text) = "/inverse" -> inverse_input_ring(s, m)
      [] Command(m.text) = "/factorize" -> factorize_input(s, m)
      [] Command(m.text) = "/euclid" -> euclid_input(s, m)
      [] Command(m.text) \in {"/broadcast", "/bc"} -> broadcast_input(s, m)
      [] OTHER -> s

\* process_new_messages calling the pending handlers without taking them out
\* of the registry.
process_new_messages_keep(s, m) ==
    IF s.steps[m.chat] # <<>>
    THEN RunHandlers(s, s.steps[m.chat], m)
    ELSE notify_command_handlers(s, m)

\* process_new_messages giving the message to the command handlers too.
process_new_messages_both(s, m) ==
    IF s.steps[m.chat] # <<>>
    THEN notify_command_handlers(
             RunHandlers(clear_step_handler_by_chat_id(s, m.chat), s.steps[m.chat], m), m)
    ELSE notify_command_handlers(s, m)

\* bot.process_new_messages: the handlers pending for the chat are taken out
\* of the registry and each is called with the message; only a message that
\* no pending handler took goes to the command handlers.
process_new_messages(s, m) ==
    IF s.steps[m.chat] # <<>>
    THEN RunHandlers(clear_step_handler_by_chat_id(s, m.chat), s.steps[m.chat], m)
    ELSE notify_command_handlers(s, m)

\* bot.process_new_callback_query: the first callback handler whose filter
\* accepts call.data.
process_new_callback_query(s, call) ==
    CASE call.data = <<"report">> -> callback_inline(s, call)
      [] call.data = <<"cancel">> -> cancel_report(s, call)
      [] call.data = <<"view_reports">> -> choose_report_types(s, call)
      [] call.data[1] \in {"report_status_NEW", "report_status_REJECTED",
                           "report_status_ACCEPTED", "report_status_CLOSED"}
           /\ Len(call.data) = 1 -> list_reports(s, call)
      [] call.data[1] \in {"accept_report", "reject_report", "close_report"}
           /\ Len(call.data) = 1 -> change_report_status(s, call)
      [] call.data[1] \in {"accept_link", "reject_link"} -> accept_link(s, call)
      [] call.data = <<"back_button">> -> back_func(s, call)
      [] OTHER -> s

\* The names of the handlers an update is given to.
CommandHandler(t) ==
    CASE Command(t) = "/start" -> <<"start_message">>
      [] Command(t) = "/help" -> <<"send_help">>
      [] Command(t) = "/det" -> <<"det">>
      [] Command(t) \in {"/idempotents", "/nilpotents"} -> <<"ring_input">>
      [] Command(t) = "/inverse" -> <<"inverse_input_ring">>
      [] Command(t) = "/factorize" -> <<"factorize_input">>
      [] Command(t) = "/euclid" -> <<"euclid_input">>
      [] Command(t) \in {"/broadcast", "/bc"} -> <<"broadcast_input">>
      [] OTHER -> <<>>

Ran(s, m) ==
    IF s.steps[m.chat] # <<>>
    THEN [i \in 1..Len(s.steps[m.chat]) |-> s.steps[m.chat][i].fn]
    ELSE CommandHandler(m.text)

\* ------------------------------------------------------------ the updates
Message(chat, from, text, blocked) ==
    [kind |-> "message", chat |-> chat, from |-> from, text |-> text,
     data |-> <<>>, mtext |-> <<>>, blocked |-> blocked]

Call(chat, from, data, mtext) ==
    [kind |-> "callback", chat |-> chat, from |-> from, text |-> NULL,
     data |-> data, mtext |-> mtext, blocked |-> {}]

\* The text of a message listing report r, as lines of tokens:
\* "Report id: <id>\nUser id: <user_id>\n..."
ReportText(r) == << <<"Report", "id:", Str(r)>>, <<"User", "id:">> >>

\* polling(): the loop ends with the first handler that raises.
polling_stops(failed) == ~failed

\* bot.infinity_polling(): an exception of a handler is logged and the loop
\* goes on fetching updates.
infinity_polling(failed) == TRUE

\* The state after the update e, within the bounds of the model.
Store(s, e, ran) ==
    /\ polling
    /\ Len(s.reports) <= MaxReports
    /\ \A c \in Chats : Len(s.steps[c]) <= MaxPending
    /\ Cardinality(s.confirms) <= MaxConfirm
    /\ steps' = s.steps
    /\ reports' = s.reports
    /\ users' = s.users
    /\ confirms' = s.confirms
    /\ out' = s.out
    /\ db' = s.db
    /\ polling' = infinity_polling(s.failed)
    /\ ev' = [e EXCEPT !.blocked = {}]
              @@ [ran |-> ran, had |-> Len(steps[e.chat]), failed |-> s.failed,
                  after |-> ev.failed, n |-> 0]

\* An update processed as it arrives.
Commit(s, e, ran) ==
    /\ Store(s, e, ran)
    /\ UNCHANGED <<inbox, arrived>>

Init ==
    /\ steps = [c \in Chats |-> <<>>]
    /\ reports = <<>>
    /\ users = {}
    /\ confirms = {}
    /\ out = <<>>
    /\ db = FALSE
    /\ polling = TRUE
    /\ inbox = <<>>
    /\ arrived = 0
    /\ ev = Message("g", "a", "/foo", {})
            @@ [ran |-> <<>>, had |-> 0, failed |-> FALSE, after |-> FALSE, n |-> 0]

\* A member of a chat sends a text message.
OnMessage(CS, US, TS) ==
    \E c \in CS : \E w \in Members(c) \cap US : \E t \in TS : \E B \in SUBSET users :
        /\ B # {} => \E i \in 1..Len(steps[c]) : steps[c][i].fn = "broadcast"
        /\ LET m == Message(c, w, t, B) IN
           Commit(process_new_messages(Given(Cur, m), m), m, Ran(Cur, m))

\* An update arrives at Telegram and waits there until the loop fetches it;
\* the bot may have lost the right to send to the chat by the time the
\* update is processed.
LoopUpdates ==
    {Message("g", "a", t, B) : t \in {"/bc", "/start", "hi"}, B \in {{}, {"g"}}}

Arrive ==
    \E e \in LoopUpdates :
        /\ arrived < MaxUpdates
        /\ Len(inbox) < MaxInbox
        /\ arrived' = arrived + 1
        /\ inbox' = Append(inbox, [n |-> arrived + 1] @@ e)
        /\ UNCHANGED <<steps, reports, users, confirms, out, ev, db, polling>>

\* The loop fetches the update that has waited longest and processes it.
Poll ==
    /\ inbox # <<>>
    /\ LET e == Head(inbox) IN
       Store(process_new_messages(Given(Cur, e), e), e, Ran(Cur, e))
    /\ inbox' = Tail(inbox)
    /\ UNCHANGED arrived

\* The "Report a bug!" button of a /help message and the "Back" button of the
\* prompt it leads to: any member of a chat may press them.
OnMenuCallback(CS, US) ==
    \E c \in CS : \E w \in Members(c) \cap US : \E d \in {"report", "cancel"} :
        LET call == Call(c, w, <<d>>, <<>>) IN
        Commit(process_new_callback_query(Cur, call), call,
               <<IF d = "report" THEN "callback_inline" ELSE "cancel_report">>)

\* The buttons an administrator's /help message leads to are on screen only
\* in a chat an administrator is in; every member of that chat may press them.
HasAdmin(c) == Members(c) \cap Admins # {}

OnViewCallback(CS, US) ==
    \E c \in CS : \E w \in Members(c) \cap US :
    \E d \in {"view_reports", "back_button", "report_status_NEW", "report_status_REJECTED",
              "report_status_ACCEPTED", "report_status_CLOSED"} :
        /\ HasAdmin(c)
        /\ LET call == Call(c, w, <<d>>, <<>>) IN
           Commit(process_new_callback_query(Cur, call), call,
                  <<IF d = "view_reports" THEN "choose_report_types"
                    ELSE IF d = "back_button" THEN "back_func" ELSE "list_reports">>)

\* The buttons under a listed report: a report is listed with them from the
\* moment it is stored, and the message stays on screen.
OnReviewCallback(CS, US) ==
    \E c \in CS : \E w \in Members(c) \cap US : \E r \in 1..Len(reports) :
    \E d \in {"accept_report", "reject_report", "close_report"} :
        /\ HasAdmin(c)
        /\ LET call == Call(c, w, <<d>>, ReportText(r)) IN
           Commit(process_new_callback_query(Cur, call), call, <<"change_report_status">>)

\* The Confirm and Reject buttons under a link confirmation message.
OnLinkCallback(CS, US) ==
    \E cf \in confirms : \E w \in Members(cf.chat) \cap US : \E d \in {"accept_link", "reject_link"} :
        /\ cf.chat \in CS
        /\ LET call == Call(cf.chat, w, <<d, cf.id>>, ConfirmText(cf.link)) IN
           Commit(process_new_callback_query(Cur, call), call, <<"accept_link">>)

\* ------------------------------------------------------- specifications
\* The dispatcher and the step registry: the commands and the report
\* submission dialogue in the group chat.
DialogTexts == {"/det", "/inverse", "/bc", "/start", "/help", "/foo", "5"}

Next ==
    \/ OnMessage({"g"}, Users, DialogTexts)
    \/ OnMenuCallback({"g"}, Users)

Spec == Init /\ [][Next]_vars

\* The report workflow driven by an administrator: submission, review and
\* link confirmation in the group chat.
LinkTexts == {"http://x/1", "see http://x/1"}

NextReview ==
    \/ OnMessage({"g"}, Admins, LinkTexts)
    \/ OnMenuCallback({"g"}, Admins)
    \/ OnReviewCallback({"g"}, Admins)
    \/ OnLinkCallback({"g"}, Admins)

SpecReview == Init /\ [][NextReview]_vars

\* The review buttons in a chat that an administrator shares with another
\* user: every member of the chat may press them.
NextShared ==
    \/ OnMessage({"g"}, Users, {"http://x/1"})
    \/ OnMenuCallback({"g"}, Users)
    \/ OnViewCallback({"g"}, Users)
    \/ OnReviewCallback({"g"}, Users)
    \/ OnLinkCallback({"g"}, Users)

SpecShared == Init /\ [][NextShared]_vars

\* The listing of the reports by status, for the administrator and for the
\* other member of the group chat, over reports the administrator takes
\* through the review.
NextList ==
    \/ OnMessage({"g"}, Admins, {"http://x/1"})
    \/ OnMenuCallback({"g"}, Admins)
    \/ OnReviewCallback({"g"}, Admins)
    \/ OnLinkCallback({"g"}, Admins)
    \/ OnViewCallback({"g"}, Users)

SpecList == Init /\ [][NextList]_vars

\* Two chats side by side: the private chat of u and the group chat, with
\* the dialogues and the report prompt in both.
ChatTexts == {"/inverse", "/det", "5", "x"}

NextChats ==
    \/ OnMessage(Chats, Users, ChatTexts)
    \/ OnMenuCallback(Chats, Users)

SpecChats == Init /\ [][NextChats]_vars

\* The dialogues of the math commands in the private chat of u, with every
\* kind of input for their continuations, and the report prompt.
MathTexts == {"/det", "/idempotents", "/nilpotents", "/idempotents 5", "/inverse",
              "/factorize", "/euclid",
              "x", "-1", "0", "1", "2", "5", "6", "3 4", "1 2\n3", "1 2\n3 4"}

NextMath ==
    \/ OnMessage({"u"}, Users, MathTexts)
    \/ OnMenuCallback({"u"}, Users)

SpecMath == Init /\ [][NextMath]_vars

\* The update loop: updates of the administrator in the group chat arrive
\* and are fetched one by one; the loop never stops fetching.
NextLoop ==
    \/ Arrive
    \/ Poll

SpecLoop == Init /\ [][NextLoop]_vars

SpecLoopFair == SpecLoop /\ WF_vars(Poll)

\* ------------------------------------------------------------ the claims
Statuses == {"NEW", "ACCEPTED", "REJECTED", "CLOSED"}

\* The report a review callback is about: the id shown in its message.
Target(e) == IdNum(e.mtext[1][3])

\* The functions of a list of pending continuations.
Fns(hs) == {hs[i].fn : i \in 1..Len(hs)}

\* How many of the pending continuations hs are calls of fn.
Count(hs, fn) == Cardinality({i \in 1..Len(hs) : hs[i].fn = fn})

C2_LinkIffAccepted ==
    \A r \in 1..Len(reports) :
        reports[r].link # NULL <=> reports[r].status \in {"ACCEPTED", "CLOSED"}

\* A report was closed and still carries the link of its acceptance, while
\* another one is NEW or REJECTED.
C2_Witness ==
    /\ \E r \in 1..Len(reports) : reports[r].status = "CLOSED" /\ reports[r].link # NULL
    /\ \E r \in 1..Len(reports) : reports[r].status \in {"NEW", "REJECTED"}

\* C3: neither the accept_report callback nor any message (link_handling
\* among its continuations) changes a stored report; a report becomes
\* ACCEPTED, and gets its link, only in a step that is an accept_link
\* confirmation.
C3_CommitOnlyOnConfirm ==
    [][/\ (\/ ev'.kind = "message"
           \/ ev'.data = <<"accept_report">>)
          => \A r \in 1..Len(reports) : reports'[r] = reports[r]
       /\ (\E r \in 1..Len(reports) :
               \/ reports'[r].link # reports[r].link
               \/ reports[r].status # "ACCEPTED" /\ reports'[r].status = "ACCEPTED")
          => ev'.kind = "callback" /\ ev'.data[1] = "accept_link"]_vars

\* The link message has been echoed for a report that is still NEW.
C3_Witness ==
    /\ ev.kind = "message"
    /\ "link_handling" \in {ev.ran[i] : i \in 1..Len(ev.ran)}
    /\ \E cf \in confirms : /\ cf.link = ev.text
                            /\ reports[IdNum(cf.id)].status = "NEW"
                            /\ reports[IdNum(cf.id)].link = NULL

\* C4: close_report turns an ACCEPTED report into CLOSED; on a report in any
\* other status it changes nothing and only sends the advisory message.
C4_CloseOnlyAccepted ==
    [][(ev'.kind = "callback" /\ ev'.data = <<"close_report">>)
       => IF reports[Target(ev')].status = "ACCEPTED"
          THEN /\ reports'[Target(ev')].status = "CLOSED"
               /\ reports'[Target(ev')].link = reports[Target(ev')].link
          ELSE /\ reports' = reports
               /\ steps' = steps
               /\ Len(out') = 1
               /\ out'[1].msg = "The issue has not been confirmed yet!"
               /\ out'[1].to = ev'.chat]_vars

\* close_report was pressed on a report that is not ACCEPTED.
C4_Witness ==
    /\ ev.kind = "callback"
    /\ ev.data = <<"close_report">>
    /\ reports[Target(ev)].status \in {"NEW", "REJECTED"}
    /\ out # <<>>

\* C5: at most one continuation is pending for a chat.
C5_AtMostOnePending ==
    \A c \in Chats : Len(steps[c]) <= 1

\* C6: the continuations pending for a chat are taken out of the registry
\* when its next message arrives and each runs once on it: afterwards only
\* what they registered themselves is pending (inverse_input_element
\* registers inverse_output for a modulus it accepts), so the same message
\* sent again does not run them again.
C6_RunOnce ==
    [][(ev'.kind = "message" /\ steps[ev'.chat] # <<>>)
       => LET c == ev'.chat
              again == IF IsInt(ev'.text) /\ ParseInt(ev'.text) >= 2
                          /\ ParseInt(ev'.text) < MAX_MODULO
                       THEN Count(steps[c], "inverse_input_element")
                       ELSE 0
          IN  /\ Len(steps'[c]) = again
              /\ Fns(steps'[c]) \subseteq {"inverse_output"}
              /\ Len(reports') = Len(reports) + Count(steps[c], "report_handling")]_vars

\* A modulus was consumed by inverse_input_element, which left only the
\* next step of its dialogue pending.
C6_Witness ==
    /\ ev.kind = "message"
    /\ ev.text = "5"
    /\ ev.ran = <<"inverse_input_element">>
    /\ steps[ev.chat] = <<Handler("inverse_output", "", 5)>>

\* C7: a callback of the review flow from a caller who is no administrator
\* changes no report and no pending continuation and sends nothing.
C7_ReviewGated ==
    [][(/\ ev'.kind = "callback"
        /\ ev'.from \notin Admins
        /\ ev'.data[1] \in {"accept_report", "reject_report", "close_report",
                            "accept_link", "reject_link", "report_status_NEW",
                            "report_status_ACCEPTED", "report_status_REJECTED",
                            "report_status_CLOSED"})
       => /\ reports' = reports
          /\ steps' = steps
          /\ out' = <<>>]_vars

\* C8: /broadcast or /bc from a caller who is no administrator sends nothing,
\* registers nothing and stores nothing, and no message of such a caller is
\* ever broadcast.
C8_BroadcastGated ==
    [][(ev'.kind = "message" /\ ev'.from \notin Admins)
       => /\ (steps[ev'.chat] = <<>> /\ Command(ev'.text) \in {"/broadcast", "/bc"})
             => /\ out' = <<>>
                /\ steps' = steps
                /\ reports' = reports
                /\ users' = users
          /\ \A i \in 1..Len(out') : out'[i].msg # "Mailing completed successfully!"]_vars

\* C9: once a report's link has been confirmed, the report is ACCEPTED and
\* its link is the text the administrator supplied for it.
C9_LinkIsSuppliedLink ==
    [][(/\ ev'.kind = "callback"
        /\ ev'.data[1] = "accept_link"
        /\ reports[IdNum(ev'.data[2])].status = "NEW")
       => /\ reports'[IdNum(ev'.data[2])].status = "ACCEPTED"
          /\ \E cf \in confirms :
                /\ cf.id = ev'.data[2]
                /\ ConfirmText(cf.link) = ev'.mtext
                /\ reports'[IdNum(ev'.data[2])].link = cf.link]_vars

\* C10: a message for a chat with pending continuations goes to them and to
\* no command handler, whatever its text; a message for a chat without any
\* goes to the handler of its command, and an unknown command changes
\* nothing and is not answered.
CommandPrompts == {"Enter the matrix: (in one message)", "Enter the ring modulus:",
                   "Message for mailing:", "Hello", "help"}

C10_ContinuationFirst ==
    [][ev'.kind = "message"
       => LET c == ev'.chat IN
          /\ steps[c] # <<>>
             => /\ \A i \in 1..Len(out') : out'[i].msg \notin CommandPrompts
                /\ Fns(steps'[c]) \cap {"matrix_input", "inverse_input_element",
                                        "broadcast"} = {}
                /\ Len(out') >= Len(steps[c])
          /\ (steps[c] = <<>> /\ ev'.text = "/det")
             => /\ steps'[c] = <<Handler("matrix_input", "det", 0)>>
                /\ Len(out') = 1 /\ out'[1].msg \in CommandPrompts
          /\ (steps[c] = <<>> /\ ev'.text \in {"/foo", "5"})
             => /\ out' = <<>>
                /\ UNCHANGED <<steps, reports, users, confirms>>]_vars

\* The text /det was consumed by the pending report continuation.
C10_Witness ==
    /\ ev.kind = "message"
    /\ ev.text = "/det"
    /\ ev.ran = <<"report_handling">>
    /\ steps[ev.chat] = <<>>

\* The replies a continuation may send for a message.
Replies(fn) ==
    CASE fn = "matrix_input" ->
             {"Please enter a <b>numeric</b> square matrix.", "determinant",
              "Mismatch in row or column sizes. The matrix must be <b>rectangular</b>.",
              "The matrix input has a limitation",
              "Determinant cannot be calculated for a non-square matrix!"}
      [] fn = "inverse_input_element" ->
             {"Input data error", "Limitation: 2 <= n < MAX_MODULO",
              "Enter the element for which you want to find the inverse:"}
      [] fn = "inverse_output" ->
             {"Input data error", "There is no inverse in the ring", "inverse"}
      [] fn = "ring_output" ->
             {"Input data error", "Limitation: 2 <= n < MAX_MODULO", "Idempotents",
              "Nilpotents"}
      [] fn = "factorize_output" ->
             {"Input data error", "factorization",
              "Factorization is available for positive integers n: 2 <= n <= FACTORIZE_MAX"}
      [] fn = "euclid_output" -> {"Input data error", "GCD"}
      [] fn = "report_handling" -> {"Thank you for reporting the issues to me!"}
      [] fn = "link_handling" -> {"Is the link provided correct?"}
      [] OTHER -> {}

\* The continuations the update e registered for its chat, st being the
\* registry after it.
Registered(e, st) ==
    IF e.kind = "message" THEN st[e.chat]
    ELSE IF e.data[1] \in {"report", "accept_report", "reject_link"}
    THEN <<st[e.chat][Len(st[e.chat])]>>
    ELSE <<>>

BadInput(h, t) ==
    CASE h.fn = "matrix_input" -> t \in {"x", "1 2\n3", "1 2\n3 4"}
      [] h.fn \in {"ring_output", "inverse_input_element"} ->
             ~IsInt(t) \/ ParseInt(t) < 2 \/ ParseInt(t) >= MAX_MODULO
      [] h.fn = "inverse_output" -> ~IsInt(t)
      [] h.fn = "factorize_output" ->
             ~IsInt(t) \/ ParseInt(t) < 2 \/ ParseInt(t) > FACTORIZE_MAX
      [] h.fn = "euclid_output" -> t # "3 4"
      [] OTHER -> FALSE

ErrorReplies ==
    {"Input data error", "Limitation: 2 <= n < MAX_MODULO",
     "Factorization is available for positive integers n: 2 <= n <= FACTORIZE_MAX",
     "Please enter a <b>numeric</b> square matrix.",
     "Mismatch in row or column sizes. The matrix must be <b>rectangular</b>.",
     "The matrix input has a limitation"}

\* C12: a message that a pending continuation cannot parse, or that is out
\* of its range, is answered with an error reply in the chat, and no
\* continuation is pending for the chat afterwards.
C12_ErrorEndsDialogue ==
    [][ev'.kind = "message"
       => LET c == ev'.chat IN
          \A i \in 1..Len(steps[c]) :
              BadInput(steps[c][i], ev'.text)
              => /\ steps'[c] = <<>>
                 /\ Len(out') >= i
                 /\ out'[i].msg \in ErrorReplies \cap Replies(steps[c][i].fn)
                 /\ out'[i].to = c]_vars

\* A single number was refused by the continuation of /euclid, with the
\* report continuation pending behind it, and nothing is pending any more.
C12_Witness ==
    /\ ev.kind = "message"
    /\ ev.text = "5"
    /\ ev.ran = <<"euclid_output", "report_handling">>
    /\ out[1].msg = "Input data error"
    /\ steps[ev.chat] = <<>>

\* C16: an integer given as the modulus of /idempotents, /nilpotents or
\* /inverse is computed with, or leads to the element step, exactly when
\* 2 <= n < MAX_MODULO; any other integer gets the limitation message, no
\* result and no continuation.
C16_ModulusRange ==
    [][ev'.kind = "message"
       => LET c == ev'.chat
              n == ParseInt(ev'.text)
              msgs == {out'[j].msg : j \in 1..Len(out')}
          IN  \A i \in 1..Len(steps[c]) :
                (steps[c][i].fn \in {"ring_output", "inverse_input_element"}
                 /\ IsInt(ev'.text))
                => IF 2 <= n /\ n < MAX_MODULO
                   THEN /\ steps[c][i].fn = "ring_output"
                           => msgs \cap {"Idempotents", "Nilpotents"} # {}
                        /\ steps[c][i].fn = "inverse_input_element"
                           => steps'[c] = <<Handler("inverse_output", "", n)>>
                        /\ "Limitation: 2 <= n < MAX_MODULO" \notin msgs
                   ELSE /\ "Limitation: 2 <= n < MAX_MODULO" \in msgs
                        /\ msgs \cap {"Idempotents", "Nilpotents"} = {}
                        /\ steps'[c] = <<>>]_vars

\* C14: between two updates the store is not acquired.
C14_StoreReleased ==
    db = FALSE

\* C19: every update that arrives is processed, whatever the handlers of
\* the updates before it did.
C19_LoopSurvives ==
    \A k \in 1..MaxUpdates : (arrived >= k) ~> (ev.n >= k)

\* An update was processed without failure right after one whose handler
\* raised.
C19_Witness ==
    /\ ev.after
    /\ ~ev.failed
    /\ ev.n >= 2
    /\ out # <<>>

\* C13: the cancel callback empties the list of continuations pending for
\* its chat, calls none of them (nothing is sent, no report, user or
\* confirmation is created or changed) and leaves the other chats alone;
\* the chat's next message is then dispatched on its command and no report
\* is stored for it.
C13_CancelClears ==
    [][/\ (ev'.kind = "callback" /\ ev'.data = <<"cancel">>)
          => /\ steps' = [steps EXCEPT ![ev'.chat] = <<>>]
             /\ out' = <<>>
             /\ UNCHANGED <<reports, users, confirms>>
       /\ (/\ ev.kind = "callback" /\ ev.data = <<"cancel">>
           /\ ev'.kind = "message" /\ ev'.chat = ev.chat)
          => /\ reports' = reports
             /\ ev'.ran = CommandHandler(ev'.text)
             /\ ev'.text = "/det"
                => /\ steps'[ev'.chat] = <<Handler("matrix_input", "det", 0)>>
                   /\ out'[1].msg = "Enter the matrix: (in one message)"]_vars

\* Cancel was pressed while the report continuation was pending behind
\* another one: nothing is pending and no report has been stored.
C13_Witness ==
    /\ ev.kind = "callback"
    /\ ev.data = <<"cancel">>
    /\ ev.had = 2
    /\ steps[ev.chat] = <<>>
    /\ reports = <<>>

\* The menu the claim gives for a caller and a listed status.
ExpectedMenu(admin, status) ==
    IF admin /\ status = "NEW" THEN "accept,reject,close"
    ELSE IF admin /\ status = "ACCEPTED" THEN "reject,close"
    ELSE "None"

\* C15: a listing sends one message per report of the listed status, each
\* with the menu given by the caller's role and the listed status: accept,
\* reject and close for an administrator listing NEW, reject and close for
\* an administrator listing ACCEPTED, no menu otherwise.
C15_MenuByRoleAndBucket ==
    (ev.kind = "callback"
     /\ ev.data[1] \in {"report_status_NEW", "report_status_ACCEPTED",
                         "report_status_REJECTED", "report_status_CLOSED"})
    => /\ Len(out) = Cardinality({r \in 1..Len(reports) :
                                   reports[r].status = StatusOfToken(ev.data[1])})
       /\ \A i \in 1..Len(out) :
             /\ out[i].msg = "Report"
             /\ reports[IdNum(out[i].about)].status = StatusOfToken(ev.data[1])
             /\ out[i].menu = ExpectedMenu(ev.from \in Admins, StatusOfToken(ev.data[1]))

\* An administrator listed the ACCEPTED reports and got reject and close
\* under one, while a REJECTED report is in the store.
C15_Witness ==
    /\ ev.kind = "callback"
    /\ ev.data = <<"report_status_ACCEPTED">>
    /\ ev.from \in Admins
    /\ Len(out) = 1
    /\ out[1].menu = "reject,close"
    /\ \E r \in 1..Len(reports) : reports[r].status = "REJECTED"

\* The ids the continuations hs of link_handling are bound to.
LinkIds(hs) == {hs[i].arg : i \in {j \in 1..Len(hs) : hs[j].fn = "link_handling"}}

\* C17: reject_link <id> changes no report, asks for the link again and
\* registers one more link_handling bound to the same id; the chat's next
\* message changes no stored report either and is echoed for confirmation
\* for every id a link_handling is pending for.
C17_RejectLinkLoops ==
    [][LET c == ev'.chat IN
       /\ (ev'.kind = "callback" /\ ev'.data[1] = "reject_link")
          => /\ reports' = reports
             /\ steps' = [steps EXCEPT
                              ![c] = Append(@, Handler("link_handling", ev'.data[2], 0))]
             /\ Len(out') = 1
             /\ out'[1].msg = "Please provide the link again."
             /\ out'[1].to = c
       /\ (ev'.kind = "message" /\ LinkIds(steps[c]) # {})
          => /\ \A r \in 1..Len(reports) : reports'[r] = reports[r]
             /\ \A id \in LinkIds(steps[c]) :
                   /\ [chat |-> c, id |-> id, link |-> ev'.text] \in confirms'
                   /\ \E i \in 1..Len(out') :
                         /\ out'[i].msg = "Is the link provided correct?"
                         /\ out'[i].about = ev'.text
                         /\ out'[i].menu = "accept_link,reject_link"]_vars

\* After a rejected link the link was sent again and is echoed for the same
\* report, which is still NEW.
C17_Witness ==
    /\ ev.kind = "callback"
    /\ ev.data[1] = "reject_link"
    /\ reports[IdNum(ev.data[2])].status = "NEW"
    /\ reports[IdNum(ev.data[2])].link = NULL
    /\ steps[ev.chat] = <<Handler("link_handling", ev.data[2], 0)>>
    /\ \E cf \in confirms : cf.id = ev.data[2]

\* C18: an update of one chat leaves the continuations pending for every
\* other chat as they are, however many updates pass.
C18_OtherChatsUntouched ==
    [][\A d \in Chats : d # ev'.chat => steps'[d] = steps[d]]_vars

\* The private chat left its dialogue by an input error while the
\* continuation of /inverse registered in the group chat is still pending.
C18_Witness ==
    /\ ev.chat = "u"
    /\ ev.kind = "message"
    /\ ev.had = 1
    /\ steps["u"] = <<>>
    /\ steps["g"] = <<Handler("inverse_output", "", 5)>>

\* C20: a message given to report_handling adds exactly one report, NEW,
\* without link, owned by the sender; no other update changes the number of
\* the reports, and no report is ever removed.
C20_OneReportPerMessage ==
    [][LET c == ev'.chat IN
       /\ Len(reports') >= Len(reports)
       /\ IF ev'.kind = "message" /\ "report_handling" \in Fns(steps[c])
          THEN /\ Len(reports') = Len(reports) + 1
               /\ reports'[Len(reports')] =
                     [user_id |-> ev'.from, status |-> "NEW", link |-> NULL]
          ELSE Len(reports') = Len(reports)]_vars

\* C21: reject_report and close_report change at most the report whose id
\* is shown in their message; accept_link <id> changes at most report <id>,
\* and the link it stores is the text echoed in its confirmation message.
C21_OnlyTargetChanges ==
    [][ev'.kind = "callback"
       => /\ ev'.data[1] \in {"reject_report", "close_report"}
             => \A r \in 1..Len(reports) :
                    r # Target(ev') => reports'[r] = reports[r]
          /\ ev'.data[1] = "accept_link"
             => /\ \A r \in 1..Len(reports) :
                      r # IdNum(ev'.data[2]) => reports'[r] = reports[r]
                /\ reports'[IdNum(ev'.data[2])] # reports[IdNum(ev'.data[2])]
                   => \E cf \in confirms :
                         /\ cf.id = ev'.data[2]
                         /\ ConfirmText(cf.link) = ev'.mtext
                         /\ reports'[IdNum(ev'.data[2])].link = cf.link]_vars

\* The callbacks that neither register nor clear a continuation.
PassiveCallbacks ==
    {"reject_report", "close_report", "view_reports", "report_status_NEW",
     "report_status_ACCEPTED", "report_status_REJECTED", "report_status_CLOSED",
     "back_button", "accept_link"}

\* C22: a callback that neither registers nor clears a continuation leaves
\* the registry as it is, and the next message of a chat is echoed as the
\* candidate link for exactly the reports a link_handling is pending for.
C22_CallbacksKeepPending ==
    [][/\ (ev'.kind = "callback" /\ ev'.data[1] \in PassiveCallbacks)
          => steps' = steps
       /\ ev'.kind = "message"
          => confirms' = confirms \cup
                 {[chat |-> ev'.chat, id |-> id, link |-> ev'.text] :
                      id \in LinkIds(steps[ev'.chat])}]_vars

\* With the link continuation for report 1 pending, report 2 was rejected:
\* the continuation for report 1 is still the one pending.
C22_Witness ==
    /\ ev.kind = "callback"
    /\ ev.data = <<"reject_report">>
    /\ Target(ev) = 2
    /\ reports[2].status = "REJECTED"
    /\ steps[ev.chat] = <<Handler("link_handling", "1", 0)>>

====
